---- MODULE Spec2Model ----
\* A model of package patchenv (patchenv.go): Patch(), patchFromCommand() and
\* runWithShell(), together with the parts of the Go runtime they call
\* (os.Getenv, os.Setenv, exec.Command / Cmd.Run, bufio.Scanner with the
\* ScanLines split function, strings.SplitN, fmt.Errorf with %q, log.Printf).
\*
\* A text is a sequence of chunks.  A chunk is a string that stands for the
\* bytes it spells, except for the named chunks below, which stand for bytes
\* a TLA+ string cannot be taken apart into.  No chunk is a prefix of another,
\* so two texts are equal exactly when their byte strings are.
EXTENDS Integers, Sequences, FiniteSets, TLC

\* ---------------------------------------------------------------- bounds

\* Largest number of lines the subprocess writes to its stdout.
MaxLines == 2

\* ---------------------------------------------------------------- chunks

NUL == "<NUL>"
CR == "<CR>"
LF == "<LF>"
EQ == "="
SP == " "
DQ == "\""
\* 65535 bytes 'x': the longest run bufio.Scanner still accepts as one token.
XLONG == "<x*65535>"

\* The number of bytes a chunk stands for.
ChunkLen(c) ==
    CASE c = XLONG -> 65535
      [] c \in {NUL, CR, LF, EQ, SP, DQ, "\\", "a", "b"} -> 1
      [] c \in {"FOO", "bar", "old"} -> 3
      [] c = "prog" -> 4
      [] c = "SHELL" -> 5
      [] c = "NOVALUE" -> 7
      [] c = "novalue" -> 7
      [] c = "/bin/sh" -> 7
      [] c = "PATCH_ENV_COMMAND" -> 17
      [] OTHER -> 1

RECURSIVE ByteLen(_)
ByteLen(t) == IF t = <<>> THEN 0 ELSE ChunkLen(Head(t)) + ByteLen(Tail(t))

\* ------------------------------------------------------ package constants

patchCommandVar == <<"PATCH_ENV_COMMAND">>
shellVar == <<"SHELL">>

\* bufio.MaxScanTokenSize, the buffer limit of the Scanner that
\* bufio.NewScanner returns.
MaxScanTokenSize == 64 * 1024

\* The destination of the standard logger that log.Printf writes to; the
\* package never calls log.SetOutput, so it is the log package's default.
LogOutput == "stderr"

\* ------------------------------------------------------- text operations

Contains(t, c) == \E i \in 1..Len(t) : t[i] = c

\* Index of the first chunk c of t at or after position from; 0 when none.
IndexFrom(t, c, from) ==
    IF \E i \in from..Len(t) : t[i] = c
    THEN CHOOSE i \in from..Len(t) : t[i] = c /\ \A j \in from..(i - 1) : t[j] # c
    ELSE 0

\* SplitN2 with the cut at the last "=" instead of the first.
SplitN2AtLast(line) ==
    IF \E i \in 1..Len(line) : line[i] = EQ
    THEN LET i == CHOOSE j \in 1..Len(line) :
                      line[j] = EQ /\ \A m \in (j + 1)..Len(line) : line[m] # EQ
         IN  <<SubSeq(line, 1, i - 1), SubSeq(line, i + 1, Len(line))>>
    ELSE <<line>>

\* strings.SplitN(line, "=", 2): the line cut at its first "=", or the line
\* alone when it has none.
SplitN2(line) ==
    LET i == IndexFrom(line, EQ, 1)
    IN  IF i = 0 THEN <<line>>
        ELSE <<SubSeq(line, 1, i - 1), SubSeq(line, i + 1, Len(line))>>

\* bufio.dropCR: one trailing carriage return is removed.
dropCR(data) ==
    IF Len(data) > 0 /\ data[Len(data)] = CR
    THEN SubSeq(data, 1, Len(data) - 1)
    ELSE data

\* One call of Scanner.Scan with the ScanLines split function on the unread
\* part of the buffer, buf[pos..]: whether a token is delivered, the token,
\* the next read position, and the error the scanner keeps (Scanner.Err).
\* The scanner gives up with ErrTooLong when MaxScanTokenSize bytes hold no
\* newline.
Scan(buf, pos) ==
    LET i == IndexFrom(buf, LF, pos)
        stop == IF i = 0 THEN Len(buf) ELSE i - 1
        raw == SubSeq(buf, pos, stop)
    IN  IF pos > Len(buf)
        THEN [ok |-> FALSE, token |-> <<>>, next |-> pos, err |-> "nil"]
        ELSE IF ByteLen(raw) >= MaxScanTokenSize
        THEN [ok |-> FALSE, token |-> <<>>, next |-> pos, err |-> "ErrTooLong"]
        ELSE [ok |-> TRUE, token |-> dropCR(raw),
              next |-> IF i = 0 THEN Len(buf) + 1 ELSE i + 1, err |-> "nil"]

\* The backslash, a chunk of its own wherever a text holds one.
BS == "\\"

\* strconv.Quote as the %q verb applies it, on the chunks of this model: the
\* quote and the backslash are escaped with a backslash, the control bytes
\* are written as their escape sequences.
RECURSIVE QuoteBody(_)
QuoteBody(t) ==
    IF t = <<>> THEN <<>>
    ELSE (CASE Head(t) = DQ -> <<BS, DQ>>
            [] Head(t) = BS -> <<BS, BS>>
            [] Head(t) = NUL -> <<BS, "x00">>
            [] Head(t) = CR -> <<BS, "r">>
            [] Head(t) = LF -> <<BS, "n">>
            [] OTHER -> <<Head(t)>>) \o QuoteBody(Tail(t))

Quote(t) == <<DQ>> \o QuoteBody(t) \o <<DQ>>

\* fmt.Errorf("patchenv command %q failed: %q", cmdString, err.Error())
Errorf(cmd, cause) ==
    <<"patchenv command ">> \o Quote(cmd) \o <<" failed: ">> \o Quote(cause)

\* ------------------------------------------------------ the environment

\* os.Getenv: the value of the variable, empty when it is not set.
Getenv(e, k) == IF k \in DOMAIN e THEN e[k] ELSE <<>>

\* The error of os.Setenv (syscall.Setenv): an empty key, a key holding "="
\* or a NUL byte, and a value holding a NUL byte are refused with EINVAL,
\* which os.Setenv wraps as the syscall error of "setenv".
SetenvErr(k, v) ==
    IF Len(k) = 0 \/ Contains(k, EQ) \/ Contains(k, NUL) \/ Contains(v, NUL)
    THEN "setenv: invalid argument"
    ELSE "nil"

\* Setenv with an empty value taken as a request to unset the variable.
SetenvUnsetsEmpty(e, k, v) ==
    IF v = <<>>
    THEN [n \in DOMAIN e \ {k} |-> e[n]]
    ELSE [n \in DOMAIN e \cup {k} |-> IF n = k THEN v ELSE e[n]]

\* The environment after a successful os.Setenv(k, v).
Setenv(e, k, v) == [n \in DOMAIN e \cup {k} |-> IF n = k THEN v ELSE e[n]]

\* ------------------------------------------------- the external command

\* The command texts PATCH_ENV_COMMAND holds: `prog a b` and `prog "a"`.
Commands == { <<"prog", SP, "a", SP, "b">>, <<"prog", SP, DQ, "a", DQ>> }

\* The lines the subprocess may write: assignments (an empty value, a plain
\* value, a value with "=", a space and quotes, a value with a NUL byte, a
\* value that makes the line longer than the scanner's buffer, a key with a
\* NUL byte, the control variable as the key) and lines that are no
\* assignment (no "=", an empty key, the empty line, a line of 65535 bytes
\* without "=").
OutLines ==
    { <<"FOO", EQ>>,
      <<"FOO", EQ, "bar">>,
      <<"FOO", EQ, "a", EQ, SP, DQ, "b", DQ>>,
      <<"FOO", EQ, "a", NUL>>,
      <<"FOO", EQ, XLONG>>,
      <<"FOO", NUL, EQ, "bar">>,
      <<"PATCH_ENV_COMMAND", EQ, "bar">>,
      <<"NOVALUE">>,
      <<EQ, "novalue">>,
      <<>>,
      <<XLONG>> }

\* How the subprocess ends its lines: the terminator between lines, and what
\* follows the last line (nothing, a terminator, or a lone CR).
Styles ==
    { [eol |-> <<LF>>, last |-> <<>>],
      [eol |-> <<LF>>, last |-> <<LF>>],
      [eol |-> <<CR, LF>>, last |-> <<CR, LF>>],
      [eol |-> <<CR, LF>>, last |-> <<CR>>] }

RECURSIVE Render(_, _)
Render(ls, style) ==
    IF Len(ls) = 0 THEN <<>>
    ELSE IF Len(ls) = 1 THEN ls[1] \o style.last
    ELSE ls[1] \o style.eol \o Render(Tail(ls), style)

\* Everything the subprocess may write to its stdout.
Outputs ==
    { Render(ls, style) :
        ls \in UNION { [1..n -> OutLines] : n \in 0..MaxLines },
        style \in Styles }

\* Everything the subprocess may write to its stderr.
ErrOutputs == { <<>>, <<"oops", LF>> }

\* The initial environments: the two control variables unset, empty or set,
\* and a variable the command's output may overwrite.
InitEnvs ==
    { [n \in names |-> CASE n = patchCommandVar -> c
                         [] n = shellVar -> sh
                         [] OTHER -> <<"old">>] :
        names \in SUBSET { patchCommandVar, shellVar, <<"FOO">> },
        c \in Commands \cup { <<>> },
        sh \in { <<>>, <<"/bin/sh">> } }

\* ---------------------------------------------------------------- state

VARIABLES
    env,        \* the process environment: variable name -> value
    envBefore,  \* the environment when Patch() was called
    pc,         \* where the call is
    cmdString,  \* Patch: cmdString
    argv,       \* the command line of every subprocess launched
    status,     \* how cmd.Run() ended: "none", "startfail", "nonzero", "zero"
    outBuf,     \* runWithShell: outBuf, the captured stdout
    errBuf,     \* runWithShell: errBuf, the captured stderr
    pos,        \* the scanner's read position in outBuf
    scanErr,    \* the error the scanner ends with (never read by the code)
    handled,    \* what the loop did with each line the scanner delivered
    io,         \* the writes to os.Stdout and os.Stderr, in order
    result      \* what Patch() returned

vars == <<env, envBefore, pc, cmdString, argv, status, outBuf, errBuf, pos,
          scanErr, handled, io, result>>

Pending == [state |-> "pending", msg |-> <<>>]
Nil == [state |-> "nil", msg |-> <<>>]
Failure(msg) == [state |-> "error", msg |-> msg]

Init ==
    /\ env \in InitEnvs
    /\ envBefore = env
    /\ pc = "idle"
    /\ cmdString = <<>>
    /\ argv = <<>>
    /\ status = "none"
    /\ outBuf = <<>>
    /\ errBuf = <<>>
    /\ pos = 1
    /\ scanErr = "nil"
    /\ handled = <<>>
    /\ io = <<>>
    /\ result = Pending

\* ---------------------------------------------------------------- Patch

\* NoCommand with only the unset variable taken as "no command".
NoCommandUnsetOnly(e) == patchCommandVar \notin DOMAIN e

\* Patch, lines 39-40: cmdString == "", the control variable names no command.
NoCommand(e) == Getenv(e, patchCommandVar) = <<>>

\* Patch, lines 39-42: PATCH_ENV_COMMAND is unset or empty.
PatchNoCommand ==
    /\ pc = "idle"
    /\ NoCommand(env)
    /\ result' = Nil
    /\ pc' = "done"
    /\ UNCHANGED <<env, envBefore, cmdString, argv, status, outBuf, errBuf, pos,
                   scanErr, handled, io>>

\* PatchCommand with the control variable unset once it has been read.
PatchCommandUnsets ==
    /\ pc = "idle"
    /\ Getenv(env, patchCommandVar) # <<>>
    /\ cmdString' = Getenv(env, patchCommandVar)
    /\ env' = [n \in DOMAIN env \ {patchCommandVar} |-> env[n]]
    /\ pc' = "run"
    /\ UNCHANGED <<envBefore, argv, status, outBuf, errBuf, pos, scanErr,
                   handled, io, result>>

\* Patch, lines 39-44: the command is handed to patchFromCommand.
PatchCommand ==
    /\ pc = "idle"
    /\ ~NoCommand(env)
    /\ cmdString' = Getenv(env, patchCommandVar)
    /\ pc' = "run"
    /\ UNCHANGED <<env, envBefore, argv, status, outBuf, errBuf, pos, scanErr,
                   handled, io, result>>

\* ---------------------------------------------------------- runWithShell

\* runWithShell, lines 81-86: the command line of the subprocess.
Command(e, cmd) ==
    LET shell == Getenv(e, shellVar)
    IN  IF shell = <<>> THEN <<cmd>> ELSE <<shell, <<"-c">>, cmd>>

\* exec.Command, filepath.Base(name) != name: the program name holds a path
\* separator ("/bin/sh" is the one chunk of the model that holds a "/").
HasPathSeparator(name) == \E i \in 1..Len(name) : name[i] = "/bin/sh"

\* The text of the error cmd.Run() returns.  A program named without a path
\* separator is looked up in $PATH by exec.Command and, when it is not found,
\* cmd.Run() returns that exec.Error; a program named by a path is started as
\* it is and os.StartProcess fails with the fs.PathError of fork/exec; a
\* program that ran and exited non-zero gives the exec.ExitError.
RunError(st, line) ==
    IF st = "startfail"
    THEN IF HasPathSeparator(line[1])
         THEN <<"fork/exec ">> \o line[1] \o <<": no such file or directory">>
         ELSE <<"exec: ">> \o Quote(line[1]) \o <<": executable file not found in $PATH">>
    ELSE <<"exit status 1">>

\* Ran with the error of cmd.Run() ignored: the output is parsed whatever
\* the outcome.
RanParsesAnyway(st, out, er) ==
    /\ argv' = Append(argv, Command(env, cmdString))
    /\ status' = st
    /\ outBuf' = out
    /\ errBuf' = er
    /\ pc' = "scan"
    /\ UNCHANGED <<env, envBefore, cmdString, pos, scanErr, handled, io, result>>

\* runWithShell, lines 81-93: cmd.Run() has ended with the outcome st, the
\* subprocess having written out and er.
Ran(st, out, er) ==
    /\ argv' = Append(argv, Command(env, cmdString))
    /\ status' = st
    /\ outBuf' = out
    /\ errBuf' = er
    /\ pc' = IF st = "zero" THEN "scan" ELSE "writeStdout"
    /\ UNCHANGED <<env, envBefore, cmdString, pos, scanErr, handled, io, result>>

\* The program cannot be started: nothing is captured.
RunStartFails ==
    /\ pc = "run"
    /\ Ran("startfail", <<>>, <<>>)

\* The program runs and exits with a status other than zero.
RunExitsNonZero ==
    /\ pc = "run"
    /\ \E out \in Outputs, er \in ErrOutputs : Ran("nonzero", out, er)

\* The program runs and exits with status zero.
RunExitsZero ==
    /\ pc = "run"
    /\ \E out \in Outputs, er \in ErrOutputs : Ran("zero", out, er)

\* runWithShell, line 95: os.Stdout.Write(outBuf.Bytes())
WriteStdout ==
    /\ pc = "writeStdout"
    /\ io' = Append(io, [ch |-> "stdout", by |-> "forward", data |-> outBuf])
    /\ pc' = "writeStderr"
    /\ UNCHANGED <<env, envBefore, cmdString, argv, status, outBuf, errBuf, pos,
                   scanErr, handled, result>>

\* WriteStderr with the captured stderr written to os.Stdout.
WriteStderrToStdout ==
    /\ pc = "writeStderr"
    /\ io' = Append(io, [ch |-> "stdout", by |-> "forward", data |-> errBuf])
    /\ pc' = "fail"
    /\ UNCHANGED <<env, envBefore, cmdString, argv, status, outBuf, errBuf, pos,
                   scanErr, handled, result>>

\* runWithShell, line 96: os.Stderr.Write(errBuf.Bytes())
WriteStderr ==
    /\ pc = "writeStderr"
    /\ io' = Append(io, [ch |-> "stderr", by |-> "forward", data |-> errBuf])
    /\ pc' = "fail"
    /\ UNCHANGED <<env, envBefore, cmdString, argv, status, outBuf, errBuf, pos,
                   scanErr, handled, result>>

\* runWithShell, lines 97-98, patchFromCommand, lines 51-53, and Patch, line
\* 44: the error goes back to the caller.
ReturnError ==
    /\ pc = "fail"
    /\ result' = Failure(Errorf(cmdString, RunError(status, argv[Len(argv)])))
    /\ pc' = "done"
    /\ UNCHANGED <<env, envBefore, cmdString, argv, status, outBuf, errBuf, pos,
                   scanErr, handled, io>>

\* ------------------------------------------------------ patchFromCommand

\* Invalid without the test for an empty key.
InvalidNoKeyCheck(parts) == Len(parts) # 2

\* patchFromCommand, line 58: the line is no assignment.
Invalid(parts) == Len(parts) # 2 \/ parts[1] = <<>>

\* log.Printf: one write to the logger's output; the message is given
\* without the date and time the logger puts before it.
Logged(msg) == [ch |-> LogOutput, by |-> "log", data |-> msg]

InvalidLineMsg(line) == <<"[WARNING] patchenv: invalid output line: ">> \o line

SetenvMsg(k, v, err) ==
    <<"[WARNING] patchenv: os.Setenv(">> \o Quote(k) \o <<", ">> \o Quote(v)
        \o <<") returned error: ", err>>

\* patchFromCommand, lines 55-61: a line that is no assignment is logged.
LineInvalid ==
    /\ pc = "scan"
    /\ LET s == Scan(outBuf, pos)
           parts == SplitN2(s.token)
       IN  /\ s.ok
           /\ Invalid(parts)
           /\ io' = Append(io, Logged(InvalidLineMsg(s.token)))
           /\ handled' = Append(handled,
                  [line |-> s.token, act |-> "warn", key |-> <<>>, value |-> <<>>])
           /\ pos' = s.next
    /\ UNCHANGED <<env, envBefore, pc, cmdString, argv, status, outBuf, errBuf,
                   scanErr, result>>

\* patchFromCommand, lines 55-63: os.Setenv(parts[0], parts[1]) succeeds.
LineSet ==
    /\ pc = "scan"
    /\ LET s == Scan(outBuf, pos)
           parts == SplitN2(s.token)
       IN  /\ s.ok
           /\ ~Invalid(parts)
           /\ SetenvErr(parts[1], parts[2]) = "nil"
           /\ env' = Setenv(env, parts[1], parts[2])
           /\ handled' = Append(handled,
                  [line |-> s.token, act |-> "set", key |-> parts[1], value |-> parts[2]])
           /\ pos' = s.next
    /\ UNCHANGED <<envBefore, pc, cmdString, argv, status, outBuf, errBuf, scanErr,
                   io, result>>

\* patchFromCommand, lines 55-67: os.Setenv(parts[0], parts[1]) fails and
\* the failure is logged.
LineSetFails ==
    /\ pc = "scan"
    /\ LET s == Scan(outBuf, pos)
           parts == SplitN2(s.token)
       IN  /\ s.ok
           /\ ~Invalid(parts)
           /\ SetenvErr(parts[1], parts[2]) # "nil"
           /\ io' = Append(io,
                  Logged(SetenvMsg(parts[1], parts[2], SetenvErr(parts[1], parts[2]))))
           /\ handled' = Append(handled,
                  [line |-> s.token, act |-> "setfail", key |-> parts[1], value |-> parts[2]])
           /\ pos' = s.next
    /\ UNCHANGED <<env, envBefore, pc, cmdString, argv, status, outBuf, errBuf,
                   scanErr, result>>

\* patchFromCommand, lines 55 and 69: scanner.Scan() returns false, at the
\* end of the output or on the scanner's error, and nil is returned.
ScanEnds ==
    /\ pc = "scan"
    /\ LET s == Scan(outBuf, pos)
       IN  /\ ~s.ok
           /\ scanErr' = s.err
    /\ result' = Nil
    /\ pc' = "done"
    /\ UNCHANGED <<env, envBefore, cmdString, argv, status, outBuf, errBuf, pos,
                   handled, io>>

Next ==
    \/ PatchNoCommand
    \/ PatchCommand
    \/ RunStartFails
    \/ RunExitsNonZero
    \/ RunExitsZero
    \/ WriteStdout
    \/ WriteStderr
    \/ ReturnError
    \/ LineInvalid
    \/ LineSet
    \/ LineSetFails
    \/ ScanEnds

Spec == Init /\ [][Next]_vars

\* ------------------------------------------------- vocabulary of the claims

Foo == <<"FOO">>

\* A line is well formed when it holds an "=" and its key, the text before
\* the first "=", is not empty.
WellFormed(line) ==
    /\ \E i \in 1..Len(line) : line[i] = EQ
    /\ line[1] # EQ

FirstEq(line) ==
    CHOOSE i \in 1..Len(line) : line[i] = EQ /\ \A j \in 1..(i - 1) : line[j] # EQ

KeyOf(line) == [i \in 1..(FirstEq(line) - 1) |-> line[i]]

ValueOf(line) == [i \in 1..(Len(line) - FirstEq(line)) |-> line[FirstEq(line) + i]]

\* A line without its terminator's carriage return.
Unterminated(t) ==
    IF t # <<>> /\ t[Len(t)] = CR THEN [i \in 1..(Len(t) - 1) |-> t[i]] ELSE t

\* The lines of an output: the texts between newlines, each without its line
\* terminator; a last line without a terminator is a line, and nothing follows
\* the last terminator.
RECURSIVE LinesOf(_)
LinesOf(buf) ==
    IF buf = <<>> THEN <<>>
    ELSE IF \E i \in 1..Len(buf) : buf[i] = LF
    THEN LET i == CHOOSE j \in 1..Len(buf) :
                      buf[j] = LF /\ \A m \in 1..(j - 1) : buf[m] # LF
         IN  <<Unterminated(SubSeq(buf, 1, i - 1))>>
                 \o LinesOf(SubSeq(buf, i + 1, Len(buf)))
    ELSE <<Unterminated(buf)>>

\* The lines of an output with the carriage returns of their terminators.
RECURSIVE RawLinesOf(_)
RawLinesOf(buf) ==
    IF buf = <<>> THEN <<>>
    ELSE IF \E i \in 1..Len(buf) : buf[i] = LF
    THEN LET i == CHOOSE j \in 1..Len(buf) :
                      buf[j] = LF /\ \A m \in 1..(j - 1) : buf[m] # LF
         IN  <<SubSeq(buf, 1, i - 1)>> \o RawLinesOf(SubSeq(buf, i + 1, Len(buf)))
    ELSE <<buf>>

\* The operating system accepts the assignment a well-formed line asks for.
Assignable(line) == \A i \in 1..Len(line) : line[i] # NUL

\* The environment e after the successful assignments among hs, in order.
RECURSIVE Assigned(_, _)
Assigned(e, hs) ==
    IF hs = <<>> THEN e
    ELSE Assigned(
            IF Head(hs).act = "set"
            THEN [n \in DOMAIN e \cup {Head(hs).key} |->
                     IF n = Head(hs).key THEN Head(hs).value ELSE e[n]]
            ELSE e,
            Tail(hs))

\* The warnings the handling hs of the lines calls for, in order.
RECURSIVE Warnings(_)
Warnings(hs) ==
    IF hs = <<>> THEN <<>>
    ELSE (CASE Head(hs).act = "warn" ->
                  <<Logged(InvalidLineMsg(Head(hs).line))>>
            [] Head(hs).act = "setfail" ->
                  <<Logged(SetenvMsg(Head(hs).key, Head(hs).value, "setenv: invalid argument"))>>
            [] OTHER -> <<>>) \o Warnings(Tail(hs))

\* t occurs in msg.
Carries(msg, t) ==
    \E i \in 1..Len(msg) :
        /\ i + Len(t) - 1 <= Len(msg)
        /\ SubSeq(msg, i, i + Len(t) - 1) = t

Returned == pc = "done"

ForwardedOut == [ch |-> "stdout", by |-> "forward", data |-> outBuf]
ForwardedErr == [ch |-> "stderr", by |-> "forward", data |-> errBuf]

\* Splitting a command text at its spaces into a program and its arguments.
RECURSIVE Fields(_)
Fields(t) ==
    IF t = <<>> THEN <<>>
    ELSE IF t[1] = SP THEN Fields(Tail(t))
    ELSE IF \E i \in 1..Len(t) : t[i] = SP
    THEN LET i == CHOOSE j \in 1..Len(t) : t[j] = SP /\ \A m \in 1..(j - 1) : t[m] # SP
         IN  <<SubSeq(t, 1, i - 1)>> \o Fields(SubSeq(t, i + 1, Len(t)))
    ELSE <<t>>

\* ------------------------------------------------------------------ C1

\* C1: when PATCH_ENV_COMMAND was unset or empty at the call, no subprocess is
\* ever started, nothing is written, the environment stays exactly what it
\* was, and Patch() returns nil.
C1_NoCommandNoEffect ==
    (patchCommandVar \notin DOMAIN envBefore \/ envBefore[patchCommandVar] = <<>>)
        => /\ argv = <<>>
           /\ status = "none"
           /\ env = envBefore
           /\ io = <<>>
           /\ Returned => result = Nil

\* Patch() has returned for a control variable that is set to the empty string,
\* in an environment that holds other variables.
C1_Witness ==
    /\ Returned
    /\ patchCommandVar \in DOMAIN envBefore
    /\ envBefore[patchCommandVar] = <<>>
    /\ Foo \in DOMAIN env
    /\ result = Nil

\* ------------------------------------------------------------------ C2

\* C2: the environment differs from what it was at the call only if the
\* subprocess has exited with status zero; and when the subprocess failed to
\* start or exited non-zero, Patch() returns an error whose message carries
\* the command text (as %q renders it), whatever the subprocess wrote.
C2_FailureLeavesEnv ==
    /\ env # envBefore => status = "zero"
    /\ (Returned /\ status \in {"startfail", "nonzero"})
          => /\ result.state = "error"
             /\ Carries(result.msg, Quote(Getenv(envBefore, patchCommandVar)))
             /\ env = envBefore

\* Patch() has returned an error after a subprocess that exited non-zero
\* having written a well-formed, assignable line.
C2_Witness ==
    /\ Returned
    /\ status = "nonzero"
    /\ result.state = "error"
    /\ \E i \in 1..Len(LinesOf(outBuf)) :
          WellFormed(LinesOf(outBuf)[i]) /\ Assignable(LinesOf(outBuf)[i])

\* ------------------------------------------------------------------ C3

\* C3: after a successful Patch(), every key of a well-formed line holds the
\* value of the last well-formed line with that key.  Stated here for the
\* lines whose assignment the operating system accepts only, which is less
\* than the claim says.
C3_LastWriteWins ==
    (Returned /\ status = "zero" /\ result = Nil)
        => LET lines == LinesOf(outBuf)
               good == { i \in 1..Len(lines) :
                            WellFormed(lines[i]) /\ Assignable(lines[i]) }
           IN  \A i \in good :
                   (\A j \in good : j > i => KeyOf(lines[j]) # KeyOf(lines[i]))
                       => /\ KeyOf(lines[i]) \in DOMAIN env
                          /\ env[KeyOf(lines[i])] = ValueOf(lines[i])

\* ------------------------------------------------------------------ C4

\* C4: once the subprocess has exited with status zero, Patch() returns nil
\* and every well-formed line of the output has been taken by the loop and
\* answered by its assignment (made, or refused with a warning), whatever
\* the lines before it are.
C4_EveryLineHandled ==
    (Returned /\ status = "zero")
        => /\ result = Nil
           /\ LET lines == LinesOf(outBuf)
              IN  \A i \in 1..Len(lines) :
                      WellFormed(lines[i])
                          => /\ i <= Len(handled)
                             /\ handled[i].line = lines[i]
                             /\ handled[i].act \in {"set", "setfail"}

\* ------------------------------------------------------------------ C5

\* C5: every line the loop takes from the output is a line of the output, in
\* order, and for such a line that holds an "=" after a non-empty key the
\* assignment made is os.Setenv(text before the first "=", text after the
\* first "="), both verbatim; it is refused only for a NUL byte, and right
\* after it is made the variable holds exactly that value.
C5_SplitAtFirstEq ==
    LET lines == LinesOf(outBuf)
    IN  /\ Len(handled) <= Len(lines)
        /\ \A i \in 1..Len(handled) :
              /\ handled[i].line = lines[i]
              /\ WellFormed(lines[i])
                    => /\ handled[i].key = KeyOf(lines[i])
                       /\ handled[i].value = ValueOf(lines[i])
                       /\ handled[i].act = (IF Assignable(lines[i]) THEN "set" ELSE "setfail")
                       /\ (i = Len(handled) /\ handled[i].act = "set")
                             => /\ handled[i].key \in DOMAIN env
                                /\ env[handled[i].key] = handled[i].value

\* The assignment of a value that holds an "=", a space and quotes has just
\* been made, to a variable that had another value.
C5_Witness ==
    /\ handled # <<>>
    /\ handled[Len(handled)].line = <<"FOO", EQ, "a", EQ, SP, DQ, "b", DQ>>
    /\ handled[Len(handled)].act = "set"
    /\ env[Foo] = <<"a", EQ, SP, DQ, "b", DQ>>
    /\ Foo \in DOMAIN envBefore

\* ------------------------------------------------------------------ C6

\* C6: a subprocess launched while SHELL is unset runs the command text split
\* into the program and its arguments; one launched while SHELL is set (here:
\* to a shell, not to the empty string) runs <SHELL> -c <command text>.
C6_CommandLine ==
    \A i \in 1..Len(argv) :
        /\ shellVar \notin DOMAIN envBefore => argv[i] = Fields(cmdString)
        /\ (shellVar \in DOMAIN envBefore /\ envBefore[shellVar] # <<>>)
              => argv[i] = <<envBefore[shellVar], <<"-c">>, cmdString>>

\* ------------------------------------------------------------------ C7

\* What C7 says of the failure path: the captured stdout, then the captured
\* stderr, then the error; no line handled and no environment write.
C7_FailurePath ==
    status \in {"startfail", "nonzero"}
        => /\ handled = <<>>
           /\ env = envBefore
           /\ pc \in {"writeStdout", "writeStderr", "fail", "done"}
           /\ pc = "writeStdout" => (io = <<>> /\ result = Pending)
           /\ pc = "writeStderr" => (io = <<ForwardedOut>> /\ result = Pending)
           /\ pc = "fail" => (io = <<ForwardedOut, ForwardedErr>> /\ result = Pending)
           /\ pc = "done" => (io = <<ForwardedOut, ForwardedErr>> /\ result.state = "error")

\* C7 as claimed: the failure path as above, and nothing at all is written to
\* the process's own stdout or stderr when the subprocess exits zero or is
\* not run.
C7_NothingWrittenOnSuccess ==
    /\ C7_FailurePath
    /\ status \in {"none", "zero"} => io = <<>>

\* C7 as amended: the failure path as above; when the subprocess exits zero
\* neither captured buffer is ever forwarded, and the only writes are the
\* warnings of the standard logger; nothing is written before the subprocess
\* has run.
C7_ForwardingOnlyOnFailure ==
    /\ C7_FailurePath
    /\ status = "none" => io = <<>>
    /\ status = "zero" => \A i \in 1..Len(io) : io[i].by = "log"

\* Patch() has returned an error after forwarding a non-empty stdout and a
\* non-empty stderr.
C7_Witness ==
    /\ Returned
    /\ status = "nonzero"
    /\ outBuf # <<>>
    /\ errBuf # <<>>
    /\ io = <<ForwardedOut, ForwardedErr>>

\* ------------------------------------------------------------------ C8

\* C8 as claimed: a warning for an invalid line is only ever emitted for a
\* non-empty line.
C8_NoWarningForEmptyLine ==
    \A i \in 1..Len(handled) : handled[i].act = "warn" => handled[i].line # <<>>

\* C8 as amended: empty lines are not skipped.  The lines the loop takes are
\* the lines of the output, in order, up to the end of the output or to the
\* first line that with its terminator's carriage return is 65536 bytes or
\* more, where the loop ends.  Each line taken is answered with the
\* invalid-line warning exactly when it has no "=" or an empty key, the empty
\* line included; only successful assignments write the environment; and the
\* warnings written are exactly those of the invalid lines and of the refused
\* assignments, in order.
C8_WarningsExactly ==
    LET lines == LinesOf(outBuf)
    IN  /\ Len(handled) <= Len(lines)
        /\ \A i \in 1..Len(handled) :
              /\ handled[i].line = lines[i]
              /\ handled[i].act = "warn" <=> ~WellFormed(lines[i])
              /\ lines[i] = <<>> => handled[i].act = "warn"
              /\ handled[i].act = "setfail" => ~Assignable(lines[i])
        /\ (Returned /\ status = "zero")
              => \A i \in 1..Len(lines) :
                    i <= Len(handled)
                        <=> \A j \in 1..i : ByteLen(RawLinesOf(outBuf)[j]) < MaxScanTokenSize
        /\ env = Assigned(envBefore, handled)
        /\ status = "zero" => io = Warnings(handled)

\* An empty line has been answered with a warning and the assignment of the
\* line after it has been made.
C8_Witness ==
    /\ Returned
    /\ Len(handled) = 2
    /\ handled[1].line = <<>>
    /\ handled[1].act = "warn"
    /\ handled[2].act = "set"
    /\ io = <<Logged(InvalidLineMsg(<<>>))>>

\* ------------------------------------------------------------------ C9

\* C9 as claimed: when Patch() has returned, PATCH_ENV_COMMAND holds the value
\* it held when Patch() read it.
C9_CommandVarUntouched ==
    Returned => Getenv(env, patchCommandVar) = Getenv(envBefore, patchCommandVar)

\* C9 as amended: the command Patch() runs is the value it read at the call.
\* PATCH_ENV_COMMAND is written only by the assignment of an output line whose
\* key it is: such an assignment is made only after exit status zero, for a
\* well-formed line of the output with that key and with the line's value.
\* While no such assignment has been made the variable is as it was at the
\* call (set or unset, and its value); once one has been made it holds the
\* value of the last one made.
C9_CommandVarOnlyFromOutput ==
    LET lines == LinesOf(outBuf)
        made == { i \in 1..Len(handled) :
                     handled[i].act = "set" /\ handled[i].key = patchCommandVar }
    IN  /\ pc \notin {"idle", "done"} => cmdString = Getenv(envBefore, patchCommandVar)
        /\ \A i \in made :
              /\ status = "zero"
              /\ i <= Len(lines)
              /\ handled[i].line = lines[i]
              /\ WellFormed(lines[i])
              /\ KeyOf(lines[i]) = patchCommandVar
              /\ ValueOf(lines[i]) = handled[i].value
        /\ made = {}
              => /\ (patchCommandVar \in DOMAIN env) = (patchCommandVar \in DOMAIN envBefore)
                 /\ Getenv(env, patchCommandVar) = Getenv(envBefore, patchCommandVar)
        /\ made # {}
              => /\ patchCommandVar \in DOMAIN env
                 /\ env[patchCommandVar]
                       = handled[CHOOSE i \in made : \A j \in made : j <= i].value

\* Patch() has returned having overwritten its own control variable from the
\* output.
C9_Witness ==
    /\ Returned
    /\ status = "zero"
    /\ Getenv(envBefore, patchCommandVar) # <<"bar">>
    /\ Getenv(env, patchCommandVar) = <<"bar">>

\* ------------------------------------------------------------------ C10

\* C10: every variable present at the call is present ever after, and every
\* variable that is not the key of a well-formed line of the output is present
\* with the value it had at the call.
C10_OnlyAddsOrOverwrites ==
    LET lines == LinesOf(outBuf)
        keys == { KeyOf(lines[i]) : i \in { j \in 1..Len(lines) : WellFormed(lines[j]) } }
    IN  /\ DOMAIN envBefore \subseteq DOMAIN env
        /\ \A k \in (DOMAIN env \cup DOMAIN envBefore) \ keys :
              /\ k \in DOMAIN envBefore
              /\ env[k] = envBefore[k]

\* Patch() has returned having added a variable, overwritten none, and kept
\* the others.
C10_Witness ==
    /\ Returned
    /\ status = "zero"
    /\ Foo \notin DOMAIN envBefore
    /\ Foo \in DOMAIN env
    /\ shellVar \in DOMAIN env
    /\ env[shellVar] = envBefore[shellVar]
    /\ env[patchCommandVar] = envBefore[patchCommandVar]

====
